---- MODULE Spec2Model ----
(***************************************************************************)
(* Model of the nearest-neighbour recommendation pipeline:                 *)
(*   main.py           Main.get_predictions / upload_s3 / execute          *)
(*   invokemodel.py    InvokeModel.__init__ / invoke_model                 *)
(*   s3filehandler.py  S3FileHandler.get_files / upload_file               *)
(* A DataFrame is a sequence of rows (records); Python exceptions are      *)
(* modelled by the control point they transfer to and the envelope they    *)
(* carry.                                                                  *)
(***************************************************************************)
EXTENDS Integers, Sequences, FiniteSets, TLC

VARIABLES
    pc,               \* control point of the running code
    bucket,           \* the S3 ingest folder as get_files finds it
    batch_size,       \* Main.batch_size
    df,               \* the DataFrame get_predictions works on
    pts,              \* product types still to iterate (main.py:64)
    df_pt,            \* main.py:66
    mps,              \* marketplaces still to iterate (main.py:70)
    df_pt_mp,         \* main.py:72
    dfs,              \* the batches built for the current group (main.py:80-85)
    chunk_i,          \* position of the for loop of main.py:88 in dfs
    df_chunk,         \* InvokeModel.df_chunk
    img_id_list,      \* InvokeModel.img_id_list
    mp,               \* InvokeModel.mp (region code)
    embeddings,       \* stage-1 result (invokemodel.py:122)
    neighbors,        \* stage-2 result (invokemodel.py:145-148)
    output_df,        \* InvokeModel.output_df
    exc,              \* the exception in flight / last raised
    output_combined,  \* Main.output_combined
    file_path,        \* Main.file_path
    artifact,         \* content of the local output file
    uploads,          \* arguments of the upload_file calls made so far
    result,           \* what execute returned or raised
    emitted,          \* history: every batch built so far, in emission order
    calls             \* history: inference-chain events, in order

vars == <<pc, bucket, batch_size, df, pts, df_pt, mps, df_pt_mp, dfs,
          chunk_i, df_chunk, img_id_list, mp, embeddings, neighbors, output_df,
          exc, output_combined, file_path, artifact, uploads, result, emitted,
          calls>>

(***************************************************************************)
(* Bounds of the model.                                                    *)
(***************************************************************************)
\* longest dataset whose rows take every combination of keys
MaxRows == 3
\* Main.batch_size is drawn from 1..MaxBatchSize and the configured 32
MaxBatchSize == 2
\* rows of the long single-group dataset (more than one full batch of 32)
LongRows == 35
\* largest chunk handed directly to InvokeModel
MaxChunkRows == 33
\* longest outer list of a stage-2 response
MaxOuter == 3
\* longest neighbour list of a stage-2 response
MaxNeighbors == 3

(***************************************************************************)
(* Program constants.                                                      *)
(***************************************************************************)
\* main.py:31  self.batch_size = 32
DefaultBatchSize == 32
\* invokemodel.py:48  self.batch_size = 32
batch_size_limit == 32

\* invokemodel.py:40-44
mps_mapping ==
    [m \in {"000000", "111111", "222222"} |->
        CASE m = "000000" -> "US"
          [] m = "111111" -> "UK"
          [] m = "222222" -> "ES"]

None == [kind |-> "None"]
NoFile == [exists |-> FALSE]
File(rows) == [exists |-> TRUE, rows |-> rows]

(***************************************************************************)
(* Values of DataFrame cells and the Python operations on them.            *)
(***************************************************************************)
IntV(n) == [t |-> "int", i |-> n]
\* the float n.0
FloatV(n) == [t |-> "float", f |-> n]
StrV(x) == [t |-> "str", s |-> x]
NaN == [t |-> "nan"]

\* x.__str__()
PyStr(x) ==
    CASE x.t = "int" -> ToString(x.i)
      [] x.t = "float" -> ToString(x.f) \o ".0"
      [] x.t = "str" -> x.s
      [] x.t = "nan" -> "nan"

\* a == b as a Series comparison takes it: NaN equals nothing, itself included
PyEq(a, b) == a.t # "nan" /\ b.t # "nan" /\ a = b

(***************************************************************************)
(* CSV files and pd.read_csv (s3filehandler.py:91).  A cell of a file is   *)
(* its text; "" is an empty cell.                                          *)
(***************************************************************************)
\* int(c) for the marketplace texts of the model
IntOf ==
    [c \in {"000000", "111111", "999999"} |->
        CASE c = "000000" -> 0
          [] c = "111111" -> 111111
          [] c = "999999" -> 999999]

\* The (product_type, marketplace_id) cells a row of a file may hold: "000000"
\* is a key of mps_mapping as text only, "999999" is no key of it, "" is an
\* empty cell.
Keys ==
    {[pt |-> "FLAT_SHEET", mp |-> "000000"], [pt |-> "FLAT_SHEET", mp |-> "111111"],
     [pt |-> "FLAT_SHEET", mp |-> "999999"], [pt |-> "FLAT_SHEET", mp |-> ""],
     [pt |-> "PILLOW", mp |-> "111111"], [pt |-> "", mp |-> "111111"]}

\* The i-th line of a file; item_id identifies the row.
CsvRow(i, k) ==
    [item_id |-> i, marketplace_id |-> k.mp, img_id |-> <<"img", i>>,
     product_type |-> k.pt]

CsvFile(keys) == [i \in 1..Len(keys) |-> CsvRow(i, keys[i])]

\* pd.read_csv: an all-digit column is read as integers (leading zeros are
\* lost); with an empty cell in it the column is read as floats and the empty
\* cell as NaN; an empty cell of a text column is NaN.
read_csv(csv) ==
    LET anyEmpty == \E i \in 1..Len(csv) : csv[i].marketplace_id = ""
        place(c) == IF c = "" THEN NaN
                    ELSE IF anyEmpty THEN FloatV(IntOf[c]) ELSE IntV(IntOf[c])
        type(c) == IF c = "" THEN NaN ELSE StrV(c)
    IN [i \in 1..Len(csv) |->
           [item_id |-> csv[i].item_id,
            marketplace_id |-> place(csv[i].marketplace_id),
            img_id |-> csv[i].img_id,
            product_type |-> type(csv[i].product_type)]]

SeqsUpTo(S, n) == UNION {[1..m -> S] : m \in 0..n}

ShortDatasets == {CsvFile(ks) : ks \in SeqsUpTo(Keys, MaxRows)}
LongDataset == CsvFile([i \in 1..LongRows |-> [pt |-> "FLAT_SHEET", mp |-> "111111"]])

Min(a, b) == IF a < b THEN a ELSE b
Max(a, b) == IF a > b THEN a ELSE b

RECURSIVE Flatten(_)
Flatten(ss) == IF ss = <<>> THEN <<>> ELSE Head(ss) \o Flatten(Tail(ss))

RECURSIVE Sum(_)
Sum(s) == IF s = <<>> THEN 0 ELSE Head(s) + Sum(Tail(s))

(***************************************************************************)
(* pandas operations used by get_predictions.                              *)
(***************************************************************************)
\* Series.unique(): the distinct values in order of first appearance (NaN,
\* when present, is one of them).
RECURSIVE Unique(_)
Unique(s) ==
    IF s = <<>> THEN <<>>
    ELSE LET rest == Unique(SubSeq(s, 1, Len(s) - 1))
             last == s[Len(s)]
         IN IF \E i \in 1..Len(rest) : rest[i] = last THEN rest
            ELSE Append(rest, last)

Column(frame, col) == [i \in 1..Len(frame) |-> frame[i][col]]

\* df[df[col] == v]: the rows whose column equals v, order kept.
Where(frame, col, v) == SelectSeq(frame, LAMBDA r : PyEq(r[col], v))

\* frame.iloc[a:b] for 0 <= a, b (Python slice, clamped to the frame).
ILoc(frame, a, b) == SubSeq(frame, Min(a, Len(frame)) + 1, Min(b, Len(frame)))

\* frame.iloc[-n:] : Python resolves a start of -n to len-n when n > 0, while
\* -0 is 0, the start of the frame.
ILocTail(frame, n) ==
    IF n = 0 THEN frame
    ELSE SubSeq(frame, Max(Len(frame) - n, 0) + 1, Len(frame))

\* main.py:84 written as `remaining_rows >= 0`: the tail slice is always added
BuildBatchesAlwaysTail(frame, bs) ==
    LET num_rows == Len(frame)
        num_splits == num_rows \div bs
        remaining_rows == num_rows % bs
        full == [i \in 1..num_splits |-> ILoc(frame, (i - 1) * bs, i * bs)]
    IN Append(full, ILocTail(frame, remaining_rows))

\* main.py:84-85 left out: the rows after the last full batch are lost
BuildBatchesNoTail(frame, bs) ==
    LET num_rows == Len(frame)
        num_splits == num_rows \div bs
    IN [i \in 1..num_splits |-> ILoc(frame, (i - 1) * bs, i * bs)]

\* main.py:73-85: the batches of one (product_type, marketplace_id) group.
BuildBatches(frame, bs) ==
    LET num_rows == Len(frame)
        num_splits == num_rows \div bs
        remaining_rows == num_rows % bs
        full == [i \in 1..num_splits |-> ILoc(frame, (i - 1) * bs, i * bs)]
    IN IF remaining_rows > 0 THEN Append(full, ILocTail(frame, remaining_rows))
       ELSE full

(***************************************************************************)
(* Status envelopes and exceptions.  A text is a sequence of pieces, each  *)
(* quote and backslash a piece of its own; str() of an exception built     *)
(* from an envelope is the text of the dict, str() of a KeyError is the    *)
(* repr of its key, str() of another built-in exception is its message.    *)
(***************************************************************************)
Envelope(msg, reason) == [event_message |-> msg, reason |-> reason]

SQ == "'"
DQ == "\""
BS == "\\"

Has(text, c) == \E i \in 1..Len(text) : text[i] = c

\* text with every backslash and every quote q behind a backslash
RECURSIVE Escape(_, _)
Escape(text, q) ==
    IF text = <<>> THEN <<>>
    ELSE (IF Head(text) = BS \/ Head(text) = q THEN <<BS, Head(text)>>
          ELSE <<Head(text)>>) \o Escape(Tail(text), q)

\* repr() of a str: in single quotes, unless the text holds a single quote
\* and no double quote; the enclosing quote and the backslash are escaped
Repr(text) ==
    LET q == IF Has(text, SQ) /\ ~Has(text, DQ) THEN DQ ELSE SQ
    IN <<q>> \o Escape(text, q) \o <<q>>

\* str() of the dict {'event_message': ..., 'reason': ...}
EnvelopeText(env) ==
    <<"{">> \o Repr(<<"event_message">>) \o <<": ">> \o Repr(<<env.event_message>>)
        \o <<", ">> \o Repr(<<"reason">>) \o <<": ">> \o Repr(env.reason) \o <<"}">>

\* raise Exception({...})
Raised(env) == [type |-> "Exception", envelope |-> env]

\* an exception raised by a library or the interpreter
BuiltIn(type, text) == [type |-> type, text |-> text]

Str(e) == IF "envelope" \in DOMAIN e THEN EnvelopeText(e.envelope) ELSE e.text

\* whether text t occurs as a contiguous part of text s
Contains(s, t) ==
    \E i \in 0..(Len(s) - Len(t)) : SubSeq(s, i + 1, i + Len(t)) = t

(***************************************************************************)
(* S3FileHandler.get_files (s3filehandler.py:67-118).  The listing of the  *)
(* bucket is "NoContents" (no Contents key), "NoCsv" (objects, none of     *)
(* them a .csv: the empty DataFrame without columns is returned) or "Csv", *)
(* with the lines of the CSV file, which read_csv turns into the frame.    *)
(***************************************************************************)
NoFilesFound == <<"No files found in the folder: ", "input/ingest/">>
S3ClientError == <<"An error occurred when calling the S3 operation">>

EmptyFrame == [kind |-> "DataFrame", columns |-> FALSE, rows |-> <<>>]
DataFrame(rows) == [kind |-> "DataFrame", columns |-> TRUE, rows |-> rows]

\* s3filehandler.py:114 written to return the envelope instead of raising it
get_files_returns_envelope(b, fault) ==
    IF b.listing = "NoContents"
    THEN [raises |-> FALSE,
          value |-> [kind |-> "dict",
                     envelope |-> Envelope("FAILURE",
                                      Str(Raised(Envelope("FAILURE", NoFilesFound))))]]
    ELSE IF fault
    THEN [raises |-> FALSE,
          value |-> [kind |-> "dict",
                     envelope |-> Envelope("FAILURE",
                                      Str(BuiltIn("ClientError", S3ClientError)))]]
    ELSE IF b.listing = "NoCsv" THEN [raises |-> FALSE, value |-> EmptyFrame]
    ELSE [raises |-> FALSE, value |-> DataFrame(read_csv(b.rows))]

\* The outcome of get_files: the DataFrame it returns or the exception it raises.
get_files(b, fault) ==
    IF b.listing = "NoContents"
    THEN \* line 72 raises inside the try; line 114 catches and wraps it again
         [raises |-> TRUE,
          exc |-> Raised(Envelope("FAILURE",
                     Str(Raised(Envelope("FAILURE", NoFilesFound)))))]
    ELSE IF fault
    THEN [raises |-> TRUE,
          exc |-> Raised(Envelope("FAILURE",
                     Str(BuiltIn("ClientError", S3ClientError))))]
    ELSE IF b.listing = "NoCsv" THEN [raises |-> FALSE, value |-> EmptyFrame]
    ELSE [raises |-> FALSE, value |-> DataFrame(read_csv(b.rows))]

(***************************************************************************)
(* InvokeModel (invokemodel.py).                                           *)
(***************************************************************************)
\* invokemodel.py:86 written against the number of columns of the chunk
batch_too_large_columns(ids) == 4 > batch_size_limit

\* invokemodel.py:86
batch_too_large(ids) == Len(ids) > batch_size_limit

BatchSizeReason == <<"the batch_size should be 32">>
CredentialsReason == <<"Credentials could not be found">>

\* an except clause that tries the failed step again instead of raising
except_clause_retries(step, e) == [pc |-> step, exc |-> None]

\* invokemodel.py:150-159: where control goes when step raised e inside the
\* try, and the exception that leaves invoke_model.
except_clause(step, e) ==
    [pc |-> "invoke_raised",
     exc |-> IF e.type = "NoCredentialsError"
             THEN Raised(Envelope("FAILURE", CredentialsReason))
             ELSE Raised(Envelope("FAILURE", <<"An error occurred: ">> \o Str(e)))]

\* The stage-2 payload whose o-th neighbour list has shape[o] entries.
NeighborResult(shape) ==
    [neighbor_item_ids |->
        [o \in 1..Len(shape) |-> [j \in 1..shape[o] |-> <<"item", o, j>>]],
     neighbor_item_ids_distances |->
        [o \in 1..Len(shape) |-> [j \in 1..shape[o] |-> <<"dist", o, j>>]]]

Shapes == SeqsUpTo(0..MaxNeighbors, MaxOuter)

\* one neighbour list per row, all of length k
UniformResults(n) == {NeighborResult([o \in 1..n |-> k]) : k \in {1, 2}}

\* every payload shape for a small chunk, the uniform ones for a large one
AnyResults(n) ==
    IF n <= MaxOuter THEN {NeighborResult(sh) : sh \in Shapes}
    ELSE UniformResults(n)

\* zip(a, b): pairs up to the shorter of the two
Zip(a, b) == [i \in 1..Min(Len(a), Len(b)) |-> <<a[i], b[i]>>]

OutputRow(row, n_item_id, distance) ==
    [item_id |-> row.item_id, marketplace_id |-> row.marketplace_id,
     img_id |-> row.img_id, product_type |-> row.product_type,
     neighbor_item_ids |-> n_item_id, neighbors_dist |-> distance]

\* invokemodel.py:161-178: for every (neighbour list, distance list) pair,
\* for every row of the chunk, one output row per (neighbour, distance).
format_results(chunk, res) ==
    LET outer == Zip(res.neighbor_item_ids, res.neighbor_item_ids_distances)
        inner(o) == Zip(outer[o][1], outer[o][2])
        forRow(o, r) ==
            [j \in 1..Len(inner(o)) |->
                OutputRow(chunk[r], inner(o)[j][1], inner(o)[j][2])]
        forList(o) == Flatten([r \in 1..Len(chunk) |-> forRow(o, r)])
    IN Flatten([o \in 1..Len(outer) |-> forList(o)])

(***************************************************************************)
(* Main (main.py).                                                         *)
(***************************************************************************)
\* main.py:115 written to return the envelope instead of raising it
get_predictions_except_returns(e) ==
    [raises |-> FALSE, value |-> Envelope("FAILURE", Str(e))]

\* main.py:115-119
get_predictions_except(e) ==
    [raises |-> TRUE, exc |-> Raised(Envelope("FAILURE", Str(e)))]

\* main.py:27, 108-109; the date is the day of the run
Today == "30-10-2026"
DatedPath == <<"/home/ec2-user/ml/datasets/output/", "output-", Today, ".csv">>

\* main.py:96: the chunk with the failure reason as an added column
TagRows(chunk, reason) ==
    [i \in 1..Len(chunk) |->
        [item_id |-> chunk[i].item_id, marketplace_id |-> chunk[i].marketplace_id,
         img_id |-> chunk[i].img_id, product_type |-> chunk[i].product_type,
         ErroStatus |-> reason]]

\* s3filehandler.py:134-139
UploadSuccess(path) ==
    Envelope("SUCCESS",
        <<"File uploaded successfully to ", "ml-v1", "/", "output/",
          path[Len(path) - 2], path[Len(path) - 1], path[Len(path)]>>)

(***************************************************************************)
(* Initial states.                                                         *)
(***************************************************************************)
Bucket(listing, rows) == [listing |-> listing, rows |-> rows]

BatchSizes == (1..MaxBatchSize) \cup {DefaultBatchSize}

\* everything but the inputs, as the constructors leave it
Fresh ==
    /\ df = None
    /\ pts = <<>>
    /\ df_pt = <<>>
    /\ mps = <<>>
    /\ df_pt_mp = <<>>
    /\ dfs = <<>>
    /\ chunk_i = 0
    /\ img_id_list = <<>>
    /\ mp = ""
    /\ embeddings = <<>>
    /\ neighbors = None
    /\ output_df = <<>>
    /\ exc = None
    /\ output_combined = <<>>
    /\ file_path = <<>>
    /\ artifact = NoFile
    /\ uploads = <<>>
    /\ result = None
    /\ emitted = <<>>
    /\ calls = <<>>

\* Main() about to run execute(), over every bucket and batch size
Init ==
    /\ pc = "get_files"
    /\ \/ /\ bucket \in {Bucket("NoContents", <<>>), Bucket("NoCsv", <<>>)}
                            \cup {Bucket("Csv", d) : d \in ShortDatasets}
          /\ batch_size \in BatchSizes
       \/ /\ bucket = Bucket("Csv", LongDataset)
          /\ batch_size = DefaultBatchSize
    /\ df_chunk = <<>>
    /\ Fresh

\* A chunk handed to InvokeModel by a caller other than Main: n rows of one key.
DirectChunks ==
    {[i \in 1..n |->
        [item_id |-> i, marketplace_id |-> m, img_id |-> <<"img", i>>,
         product_type |-> StrV("FLAT_SHEET")]] :
        n \in 0..MaxChunkRows, m \in {StrV("000000"), IntV(111111), IntV(999999)}}

InitInvoke ==
    /\ pc = "construct"
    /\ bucket = Bucket("NoContents", <<>>)
    /\ batch_size = DefaultBatchSize
    /\ df_chunk \in DirectChunks
    /\ Fresh

(***************************************************************************)
(* Main.get_predictions, up to the batch loop.                             *)
(***************************************************************************)
loop_vars == <<pts, df_pt, mps, df_pt_mp, dfs, chunk_i, emitted>>
model_vars == <<df_chunk, img_id_list, mp, embeddings, neighbors, output_df>>
out_vars == <<output_combined, file_path, artifact, uploads, result>>
env_vars == <<bucket, batch_size>>

\* main.py:57-64
GetFiles ==
    /\ pc = "get_files"
    /\ \E fault \in BOOLEAN :
        LET r == get_files(bucket, fault) IN
        IF r.raises
        THEN /\ exc' = r.exc
             /\ pc' = "except"
             /\ UNCHANGED <<df, pts>>
        ELSE IF r.value.kind = "dict"
        THEN \* line 61: return df
             /\ df' = r.value
             /\ pc' = "upload"
             /\ UNCHANGED <<exc, pts>>
        ELSE IF ~r.value.columns
        THEN \* line 64: df['product_type'] on a frame without columns
             /\ df' = r.value
             /\ exc' = BuiltIn("KeyError", Repr(<<"product_type">>))
             /\ pc' = "except"
             /\ UNCHANGED pts
        ELSE /\ df' = r.value
             /\ pts' = Unique(Column(r.value.rows, "product_type"))
             /\ pc' = "for_pt"
             /\ UNCHANGED exc
    /\ UNCHANGED <<df_pt, mps, df_pt_mp, dfs, chunk_i, emitted, calls>>
    /\ UNCHANGED <<model_vars, out_vars, env_vars>>

\* main.py:64-70
ForProductType ==
    /\ pc = "for_pt"
    /\ IF pts = <<>>
       THEN /\ pc' = "to_csv"
            /\ UNCHANGED <<pts, df_pt, mps>>
       ELSE /\ df_pt' = Where(df.rows, "product_type", Head(pts))
            /\ mps' = Unique(Column(df_pt', "marketplace_id"))
            /\ pts' = Tail(pts)
            /\ pc' = "for_mp"
    /\ UNCHANGED <<df, df_pt_mp, dfs, chunk_i, emitted, calls, exc>>
    /\ UNCHANGED <<model_vars, out_vars, env_vars>>

\* main.py:70-85
ForMarketplace ==
    /\ pc = "for_mp"
    /\ IF mps = <<>>
       THEN /\ pc' = "for_pt"
            /\ UNCHANGED <<mps, df_pt_mp, dfs, chunk_i, emitted>>
       ELSE /\ df_pt_mp' = Where(df_pt, "marketplace_id", Head(mps))
            /\ dfs' = BuildBatches(df_pt_mp', batch_size)
            /\ emitted' = emitted \o dfs'
            /\ chunk_i' = 0
            /\ mps' = Tail(mps)
            /\ pc' = "for_chunk"
    /\ UNCHANGED <<df, pts, df_pt, calls, exc>>
    /\ UNCHANGED <<model_vars, out_vars, env_vars>>

\* main.py:88-90: the next batch, if any, goes to a new InvokeModel
ForChunk ==
    /\ pc = "for_chunk"
    /\ IF chunk_i = Len(dfs)
       THEN /\ pc' = "for_mp"
            /\ UNCHANGED <<chunk_i, df_chunk>>
       ELSE /\ chunk_i' = chunk_i + 1
            /\ df_chunk' = dfs[chunk_i + 1]
            /\ pc' = "construct"
    /\ UNCHANGED <<df, pts, df_pt, mps, df_pt_mp, dfs, emitted, calls, exc>>
    /\ UNCHANGED <<img_id_list, mp, embeddings, neighbors, output_df>>
    /\ UNCHANGED <<out_vars, env_vars>>

(***************************************************************************)
(* InvokeModel: the constructor and invoke_model, one action per step.     *)
(***************************************************************************)
\* An entry of the history `calls`: the chunk (by the item_id of its first
\* row, 0 for an empty chunk) and what happened.
Event(chunk, op) ==
    [chunk |-> IF chunk = <<>> THEN 0 ELSE chunk[1].item_id, op |-> op]

main_vars == <<df, pts, df_pt, mps, df_pt_mp, dfs, chunk_i, emitted>>

\* str(e) of the exception a step of the try block raises
ErrorText(step, type) ==
    CASE type = "NoCredentialsError" -> <<"Unable to locate credentials">>
      [] type = "ClientError" ->
            <<"An error occurred (AccessDenied) when calling the AssumeRole operation">>
      [] type = "EndpointError" ->
            <<"An error occurred (ModelError) when calling the InvokeEndpoint operation">>
      [] type = "SyntaxError" -> <<"invalid syntax (<string>, line 1)">>
      [] type = "TypeError" -> <<"eval() arg 1 must be a string, bytes or code object">>
      [] type = "KeyError" ->
            Repr(<<IF step = "stage1" THEN "embeddings" ELSE "neighbor_item_ids">>)

\* Control leaves the try block of invoke_model through an except clause.
Fail(step, e) ==
    LET x == except_clause(step, e) IN
    /\ pc' = x.pc
    /\ exc' = x.exc
    /\ calls' = IF x.pc = "invoke_raised"
                THEN calls \o <<Event(df_chunk, step), Event(df_chunk, "raise")>>
                ELSE Append(calls, Event(df_chunk, step))

\* invokemodel.py:34-61: InvokeModel(df_chunk)
Construct ==
    /\ pc = "construct"
    /\ img_id_list' = Column(df_chunk, "img_id")
    /\ embeddings' = <<>>
    /\ neighbors' = None
    /\ output_df' = <<>>
    /\ IF df_chunk = <<>>
       THEN \* line 53: tolist()[0] of an empty list
            /\ exc' = BuiltIn("IndexError", <<"list index out of range">>)
            /\ calls' = calls \o <<Event(df_chunk, "InvokeModel"),
                                   Event(df_chunk, "raise")>>
            /\ pc' = "invoke_raised"
            /\ UNCHANGED mp
       ELSE IF PyStr(df_chunk[1].marketplace_id) \notin DOMAIN mps_mapping
       THEN \* line 54: the key is not in the dict
            /\ exc' = BuiltIn("KeyError", Repr(<<PyStr(df_chunk[1].marketplace_id)>>))
            /\ calls' = calls \o <<Event(df_chunk, "InvokeModel"),
                                   Event(df_chunk, "raise")>>
            /\ pc' = "invoke_raised"
            /\ UNCHANGED mp
       ELSE /\ mp' = mps_mapping[PyStr(df_chunk[1].marketplace_id)]
            /\ calls' = Append(calls, Event(df_chunk, "InvokeModel"))
            /\ pc' = "invoke_model"
            /\ UNCHANGED exc
    /\ UNCHANGED <<main_vars, df_chunk, out_vars, env_vars>>

\* invokemodel.py:82-90: the STS client object is built (no request is sent)
\* and the batch size is checked, outside the try block
Validate ==
    /\ pc = "invoke_model"
    /\ IF batch_too_large(img_id_list)
       THEN /\ exc' = Raised(Envelope("FAILURE", BatchSizeReason))
            /\ calls' = calls \o <<Event(df_chunk, "invoke_model"),
                                   Event(df_chunk, "raise")>>
            /\ pc' = "invoke_raised"
       ELSE /\ calls' = Append(calls, Event(df_chunk, "invoke_model"))
            /\ pc' = "assume_role"
            /\ UNCHANGED exc
    /\ UNCHANGED <<main_vars, model_vars, out_vars, env_vars>>

\* invokemodel.py:93-106: sts assume_role, then the SageMaker client object
AssumeRole ==
    /\ pc = "assume_role"
    /\ \E outcome \in {"ok", "NoCredentialsError", "ClientError"} :
        IF outcome = "ok"
        THEN /\ calls' = Append(calls, Event(df_chunk, "assume_role"))
             /\ pc' = "stage1"
             /\ UNCHANGED exc
        ELSE Fail("assume_role", BuiltIn(outcome, ErrorText("assume_role", outcome)))
    /\ UNCHANGED <<main_vars, model_vars, out_vars, env_vars>>

\* invokemodel.py:108-130: the embeddings endpoint and eval(outp)['embeddings']
Stage1 ==
    /\ pc = "stage1"
    /\ \E outcome \in {"ok", "EndpointError", "SyntaxError", "KeyError"} :
        IF outcome = "ok"
        THEN /\ embeddings' = [i \in 1..Len(img_id_list) |-> <<"emb", img_id_list[i]>>]
             /\ calls' = Append(calls, Event(df_chunk, "stage1"))
             /\ pc' = "stage2"
             /\ UNCHANGED exc
        ELSE /\ Fail("stage1", BuiltIn(outcome, ErrorText("stage1", outcome)))
             /\ UNCHANGED embeddings
    /\ UNCHANGED <<main_vars, df_chunk, img_id_list, mp, neighbors, output_df>>
    /\ UNCHANGED <<out_vars, env_vars>>

\* invokemodel.py:132-148: the neighbours endpoint and eval(eval(outp)); a
\* payload that is not doubly encoded makes the second eval a TypeError
Stage2(results) ==
    /\ pc = "stage2"
    /\ \/ \E res \in results :
            /\ neighbors' = res
            /\ calls' = Append(calls, Event(df_chunk, "stage2"))
            /\ pc' = "format"
            /\ UNCHANGED exc
       \/ \E outcome \in {"EndpointError", "TypeError", "KeyError"} :
            /\ Fail("stage2", BuiltIn(outcome, ErrorText("stage2", outcome)))
            /\ UNCHANGED neighbors
    /\ UNCHANGED <<main_vars, df_chunk, img_id_list, mp, embeddings, output_df>>
    /\ UNCHANGED <<out_vars, env_vars>>

\* invokemodel.py:161-178
Format ==
    /\ pc = "format"
    /\ output_df' = format_results(df_chunk, neighbors)
    /\ calls' = Append(calls, Event(df_chunk, "return"))
    /\ pc' = "returned"
    /\ UNCHANGED <<main_vars, df_chunk, img_id_list, mp, embeddings, neighbors>>
    /\ UNCHANGED <<exc, out_vars, env_vars>>

(***************************************************************************)
(* Main: after invoke_model, the artifact and the upload.                  *)
(***************************************************************************)
\* main.py:91-103: invoke_model returned its DataFrame
Concat ==
    /\ pc = "returned"
    /\ LET output == DataFrame(output_df) IN
       IF output.kind = "dict"
       THEN output_combined' =
                output_combined \o TagRows(df_chunk, output.envelope.reason)
       ELSE output_combined' = output_combined \o output.rows
    /\ pc' = "for_chunk"
    /\ UNCHANGED <<main_vars, model_vars, exc, calls, env_vars>>
    /\ UNCHANGED <<file_path, artifact, uploads, result>>

\* main.py:115-119: an exception raised anywhere in the try block of
\* get_predictions (by get_files, InvokeModel, invoke_model or to_csv)
HandleException ==
    /\ pc \in {"except", "invoke_raised"}
    /\ LET h == get_predictions_except(exc) IN
       IF h.raises
       THEN \* it leaves get_predictions and execute
            /\ result' = [raised |-> TRUE, value |-> h.exc.envelope]
            /\ pc' = "done"
       ELSE \* get_predictions returns; execute goes on to upload_s3
            /\ pc' = "upload"
            /\ UNCHANGED result
    /\ UNCHANGED <<main_vars, model_vars, exc, calls, env_vars>>
    /\ UNCHANGED <<output_combined, file_path, artifact, uploads>>

\* main.py:105-113
WriteCsv ==
    /\ pc = "to_csv"
    /\ file_path' = DatedPath
    /\ \E written \in BOOLEAN :
        IF written
        THEN /\ artifact' = File(output_combined)
             /\ pc' = "upload"
             /\ UNCHANGED exc
        ELSE /\ exc' = BuiltIn("OSError", <<"Cannot save file into a non-existent directory">>)
             /\ pc' = "except"
             /\ UNCHANGED artifact
    /\ UNCHANGED <<main_vars, model_vars, calls, env_vars>>
    /\ UNCHANGED <<output_combined, uploads, result>>

\* main.py:121-129, 141 and s3filehandler.py:120-144
Upload ==
    /\ pc = "upload"
    /\ uploads' = Append(uploads, file_path)
    /\ \E sent \in BOOLEAN :
        IF sent /\ file_path # <<>> /\ artifact.exists
        THEN result' = [raised |-> FALSE, value |-> UploadSuccess(file_path)]
        ELSE result' = [raised |-> TRUE,
                        value |-> Envelope("FAILURE",
                                     Str(BuiltIn("S3UploadFailedError", S3ClientError)))]
    /\ pc' = "done"
    /\ UNCHANGED <<main_vars, model_vars, exc, calls, env_vars>>
    /\ UNCHANGED <<output_combined, file_path, artifact>>

(***************************************************************************)
(* Specifications.                                                         *)
(***************************************************************************)
\* Main().execute()
Next ==
    \/ GetFiles
    \/ ForProductType
    \/ ForMarketplace
    \/ ForChunk
    \/ Construct
    \/ Validate
    \/ AssumeRole
    \/ Stage1
    \/ Stage2(UniformResults(Len(df_chunk)))
    \/ Format
    \/ Concat
    \/ HandleException
    \/ WriteCsv
    \/ Upload

Spec == Init /\ [][Next]_vars

\* InvokeModel(df_chunk).invoke_model() on its own
NextInvoke ==
    \/ Construct
    \/ Validate
    \/ AssumeRole
    \/ Stage1
    \/ Stage2(AnyResults(Len(df_chunk)))
    \/ Format

SpecInvoke == InitInvoke /\ [][NextInvoke]_vars

(***************************************************************************)
(* Vocabulary of the properties.                                           *)
(***************************************************************************)
KeyOf(r) == <<r.product_type, r.marketplace_id>>
InGroup(frame, k) == SelectSeq(frame, LAMBDA r : KeyOf(r) = k)
KeysOf(frame) == {KeyOf(frame[i]) : i \in 1..Len(frame)}
\* no row of the frame has an empty key cell
AllKeyed(frame) ==
    \A i \in 1..Len(frame) :
        frame[i].product_type # NaN /\ frame[i].marketplace_id # NaN
IsPrefix(a, b) == Len(a) <= Len(b) /\ SubSeq(b, 1, Len(a)) = a
Ops(events) == [i \in 1..Len(events) |-> events[i].op]
Called(op) == \E i \in 1..Len(calls) : calls[i].op = op
CountOp(op) == Cardinality({i \in 1..Len(calls) : calls[i].op = op})
EventsOf(c) == Ops(SelectSeq(calls, LAMBDA e : e.chunk = c))
ItemIds(frame) == {frame[i].item_id : i \in 1..Len(frame)}

\* get_files returned a DataFrame with columns
Retrieved == df.kind = "DataFrame" /\ df.columns
\* the loops of main.py:64-103 have run to their end
GroupsDone == Retrieved /\ (pc = "to_csv" \/ file_path # <<>>)
\* the inference chain failed for the batch in df_chunk
BatchFailed == calls # <<>> /\ calls[Len(calls)].op = "raise"
\* main.py:64-85 over the whole dataset: every batch, in emission order
Partition(frame, bs) ==
    LET types == Unique(Column(frame, "product_type"))
        ofType(t) == Where(frame, "product_type", t)
        places(t) == Unique(Column(ofType(t), "marketplace_id"))
        group(t, m) == BuildBatches(Where(ofType(t), "marketplace_id", m), bs)
        byType(t) == Flatten([j \in 1..Len(places(t)) |-> group(t, places(t)[j])])
    IN Flatten([i \in 1..Len(types) |-> byType(types[i])])

(***************************************************************************)
(* C3, C4: the partitioner.                                                *)
(***************************************************************************)
\* what C3 says of the batches built so far, for the frame in df
PartitionsDataset ==
    LET flat == Flatten(emitted) IN
    /\ \A b \in 1..Len(emitted) : \A i \in 1..Len(emitted[b]) :
           KeyOf(emitted[b][i]) = KeyOf(emitted[b][1])
    /\ \A i, j \in 1..Len(flat) : i # j => flat[i] # flat[j]
    /\ \A i \in 1..Len(flat) : \E j \in 1..Len(df.rows) : flat[i] = df.rows[j]
    /\ \A k \in KeysOf(df.rows) : IsPrefix(InGroup(flat, k), InGroup(df.rows, k))
    /\ GroupsDone =>
           /\ Len(flat) = Len(df.rows)
           /\ \A k \in KeysOf(df.rows) : InGroup(flat, k) = InGroup(df.rows, k)

\* C3: the batches built so far are homogeneous in product_type and
\* marketplace_id, hold rows of the dataset without repetition, keep each
\* group's rows in dataset order, and once every group is built hold every
\* row of the dataset exactly once.
C3_BatchesPartitionDataset == Retrieved => PartitionsDataset

\* The same for the datasets in which no row has an empty product_type or
\* marketplace_id cell.
PartitionOfKeyedDataset == (Retrieved /\ AllKeyed(df.rows)) => PartitionsDataset

\* every group is built, among them one split into two batches and a second one
KeyedPartitionReached ==
    /\ GroupsDone
    /\ AllKeyed(df.rows)
    /\ \E b \in 1..(Len(emitted) - 1) : KeyOf(emitted[b][1]) = KeyOf(emitted[b + 1][1])
    /\ \E b \in 1..Len(emitted) : KeyOf(emitted[b][1]) # KeyOf(emitted[1][1])

\* C4: a group of N rows gives N div batch_size batches of exactly batch_size
\* rows, then one of N mod batch_size rows unless that is 0; every batch is
\* non-empty and has at most batch_size rows.
C4_BatchSizes ==
    LET N == Len(df_pt_mp)
        q == N \div batch_size
        r == N % batch_size
    IN /\ Len(dfs) = q + (IF r = 0 THEN 0 ELSE 1)
       /\ \A i \in 1..q : Len(dfs[i]) = batch_size
       /\ r > 0 => Len(dfs[Len(dfs)]) = r
       /\ \A i \in 1..Len(dfs) : Len(dfs[i]) \in 1..batch_size

\* a group larger than the configured batch size, with rows left over
C4_Witness ==
    /\ batch_size = DefaultBatchSize
    /\ Len(df_pt_mp) > batch_size
    /\ Len(df_pt_mp) % batch_size > 0
    /\ Len(dfs) = 2
    /\ pc = "for_chunk"

\* full batches followed by a shorter last one, for a small batch size
C4_WitnessSmall ==
    /\ batch_size > 1
    /\ Len(df_pt_mp) > batch_size
    /\ Len(df_pt_mp) % batch_size > 0
    /\ pc = "for_chunk"

(***************************************************************************)
(* C1, C2, C6: what a failed batch does to the run.                        *)
(***************************************************************************)
\* C1: when the dataset was retrieved and the inference chain failed for a
\* batch, the run still passes every batch of the dataset to the inference
\* chain, writes the combined result and invokes upload.
C1_BatchFailureDoesNotEndRun ==
    (pc = "done" /\ Retrieved /\ BatchFailed) =>
        /\ CountOp("InvokeModel") = Len(Partition(df.rows, batch_size))
        /\ artifact.exists
        /\ uploads # <<>>

\* a row of the combined result that carries a failure reason
IsErrorRow(r) == "ErrorStatus" \in DOMAIN r \/ "ErroStatus" \in DOMAIN r

\* C2: when the run has ended and the inference chain failed for the batch in
\* df_chunk, the combined result holds exactly one tagged row for every row
\* of that batch and no neighbour row of it.
C2_FailedBatchIsTagged ==
    (pc = "done" /\ Retrieved /\ BatchFailed) =>
        /\ \A i \in 1..Len(df_chunk) :
               Cardinality({j \in 1..Len(output_combined) :
                   /\ IsErrorRow(output_combined[j])
                   /\ output_combined[j].item_id = df_chunk[i].item_id}) = 1
        /\ \A j \in 1..Len(output_combined) :
               output_combined[j].item_id \in ItemIds(df_chunk)
                   => IsErrorRow(output_combined[j])

\* the constructor of InvokeModel failed on the marketplace lookup
UnknownMarketplace ==
    /\ df_chunk # <<>>
    /\ PyStr(df_chunk[1].marketplace_id) \notin DOMAIN mps_mapping
    /\ BatchFailed
    /\ exc.type = "KeyError"

\* C6: when the run has ended and a batch had a marketplace_id that is not in
\* the table, the failure names that marketplace, every batch of the dataset
\* was still passed to the inference chain and upload was invoked.
C6_UnknownMarketplaceIsPerBatch ==
    (pc = "done" /\ UnknownMarketplace) =>
        /\ Contains(result.value.reason, <<PyStr(df_chunk[1].marketplace_id)>>)
        /\ CountOp("InvokeModel") = Len(Partition(df.rows, batch_size))
        /\ uploads # <<>>

(***************************************************************************)
(* C5: the result shaper.                                                  *)
(***************************************************************************)
\* the payload has one neighbour list per row of the chunk
OneListPerRow ==
    /\ neighbors # None
    /\ Len(neighbors.neighbor_item_ids) = Len(df_chunk)
    /\ Len(neighbors.neighbor_item_ids_distances) = Len(df_chunk)

\* C5: with one neighbour list per row, output_df has one row per (row i,
\* j-th neighbour of row i, j-th distance of row i) and nothing else: row i
\* of the chunk meets only the i-th list.
C5_ShaperIsOneToOne ==
    (pc = "returned" /\ OneListPerRow) =>
        LET ids == neighbors.neighbor_item_ids
            dist == neighbors.neighbor_item_ids_distances
            expected ==
                Flatten([i \in 1..Len(df_chunk) |->
                    [j \in 1..Min(Len(ids[i]), Len(dist[i])) |->
                        OutputRow(df_chunk[i], ids[i][j], dist[i][j])]])
        IN /\ Len(output_df) = Sum([i \in 1..Len(ids) |-> Len(ids[i])])
           /\ output_df = expected

(***************************************************************************)
(* C7: the batch size guard of invoke_model.                               *)
(***************************************************************************)
\* C7: once invoke_model has been entered with more than batch_size_limit
\* rows it has raised the FAILURE envelope of the size check, and neither
\* assume_role nor either endpoint has been called.
C7_OversizeFailsBeforeRemoteCalls ==
    (Len(df_chunk) > batch_size_limit /\ Called("invoke_model")) =>
        /\ pc = "invoke_raised"
        /\ exc = Raised(Envelope("FAILURE", BatchSizeReason))
        /\ ~Called("assume_role")
        /\ ~Called("stage1")
        /\ ~Called("stage2")
        /\ output_df = <<>>

\* invoke_model was entered with 33 rows or more and has raised
C7_Witness ==
    /\ Len(df_chunk) > batch_size_limit
    /\ Called("invoke_model")
    /\ pc = "invoke_raised"

(***************************************************************************)
(* C8, C9: retrieval failure and the upload.                               *)
(***************************************************************************)
\* get_files raised: no DataFrame ever reached get_predictions
GetFilesFailed == pc \in {"except", "done", "upload"} /\ df = None

\* the reason get_files started from
RetrievalReason ==
    IF bucket.listing = "NoContents" THEN NoFilesFound ELSE S3ClientError

\* C8: after get_files failed no batch is built or passed to the inference
\* chain, no artifact is written, upload is not invoked, and the run ends by
\* raising a FAILURE envelope whose reason holds the reason of get_files.
C8_RetrievalFailureIsFatal ==
    GetFilesFailed =>
        /\ emitted = <<>>
        /\ calls = <<>>
        /\ ~artifact.exists
        /\ file_path = <<>>
        /\ uploads = <<>>
        /\ pc # "upload"
        /\ pc = "done" =>
               /\ result.raised
               /\ result.value.event_message = "FAILURE"
               /\ Contains(result.value.reason, RetrievalReason)

\* the run has ended after get_files found no files
C8_Witness ==
    /\ pc = "done"
    /\ df = None
    /\ bucket.listing = "NoContents"
    /\ result.raised

\* C9: upload is invoked at most once, and when it is invoked every group
\* has been processed, every batch has returned, the combined result is in
\* the dated file and that file's path is the argument.
C9_UploadOnceAfterArtifact ==
    /\ Len(uploads) <= 1
    /\ (pc = "upload" \/ uploads # <<>>) =>
           /\ Retrieved
           /\ pts = <<>> /\ mps = <<>> /\ chunk_i = Len(dfs)
           /\ emitted = Partition(df.rows, batch_size)
           /\ CountOp("return") = Len(emitted)
           /\ artifact.exists
           /\ artifact.rows = output_combined
           /\ file_path = DatedPath
    /\ uploads # <<>> => uploads[1] = DatedPath

\* upload was invoked after two batches or more
C9_Witness ==
    /\ uploads # <<>>
    /\ Len(emitted) >= 2
    /\ output_combined # <<>>

(***************************************************************************)
(* C10: one batch at a time, every step once, no retry.                    *)
(***************************************************************************)
\* the events of a batch whose every step succeeds
Chain == <<"InvokeModel", "invoke_model", "assume_role", "stage1", "stage2", "return">>

\* at most one of each step, in the order of Chain, ended by at most one raise
InChainOrder(ops) ==
    \/ IsPrefix(ops, Chain)
    \/ /\ Len(ops) >= 2
       /\ ops[Len(ops)] = "raise"
       /\ Len(ops) <= Len(Chain)
       /\ IsPrefix(SubSeq(ops, 1, Len(ops) - 1), Chain)

\* C10: the events of each batch are contiguous, a batch starts only after
\* the one before it returned, each batch's events are in chain order with
\* every step at most once, stage 2 is called only with the parsed
\* embeddings of stage 1, and a batch that failed has no further event and
\* no row in any result.
C10_SequentialNoRetry ==
    /\ \A i \in 1..Len(calls) : InChainOrder(EventsOf(calls[i].chunk))
    /\ \A i \in 2..Len(calls) :
           calls[i].chunk # calls[i - 1].chunk =>
               /\ calls[i - 1].op = "return"
               /\ calls[i].op = "InvokeModel"
               /\ \A j \in 1..(i - 1) : calls[j].chunk # calls[i].chunk
    /\ \A i \in 1..Len(calls) : calls[i].op = "raise" => i = Len(calls)
    /\ (calls # <<>> /\ calls[Len(calls)].op = "stage2") =>
           embeddings = [i \in 1..Len(img_id_list) |-> <<"emb", img_id_list[i]>>]
    /\ BatchFailed =>
           /\ output_df = <<>>
           /\ \A j \in 1..Len(output_combined) :
                  output_combined[j].item_id \notin ItemIds(df_chunk)

\* a batch returned and the next one failed in stage 2
C10_Witness ==
    /\ Len(calls) >= 3
    /\ Called("return")
    /\ calls[Len(calls)].op = "raise"
    /\ calls[Len(calls) - 1].op = "stage2"
    /\ pc = "done"

====
